---- MODULE Spec2Model ----
(***************************************************************************)
(* State-machine model of the Synacor virtual machine of src/src/main.rs   *)
(* and src/src/opcodes.rs: MachineState (mem, cur, registers, stack), the  *)
(* dispatcher exec_next and one handler per opcode.                        *)
(*                                                                         *)
(* Memory is the 32768-cell vector built by tests::setup (every cell 0     *)
(* unless overridden); it is kept sparsely, as the function of its         *)
(* non-zero cells, which is a canonical form of that vector.               *)
(* A Rust panic (index out of bounds, remainder by zero) is the result     *)
(* kind "Panic".  The machines explored are those of the unit tests, and   *)
(* machines holding one instruction (or push followed by pop) at address   *)
(* 0 whose words range over the boundaries of the literal and register     *)
(* ranges, with the public fields registers and stack preset the way the   *)
(* tests preset them.                                                      *)
(***************************************************************************)
EXTENDS Integers, Sequences, FiniteSets, TLC

\* mem, cur, registers, stack: the fields of MachineState
\* out:   the bytes written to standard output so far
\* res:   what the last exec_next returned (Ok before the first call)
\* steps: the number of exec_next calls made
\* prev, prev2: the machine before the last call and before the one
\*        preceding it (history, read by the properties only)
\* caller: who calls exec_next: "tests" (a unit test, a bounded number of
\*        calls) or "run" (MachineState::run, called by main)
\* returned: what run returned (NotReturned while it loops, and always
\*        when the tests drive the machine)
\* frames: one record per successful call whose return address is still
\*        on the stack (history, read by the properties only)
\* loaded: the memory the machine was constructed with
\* opcode: the word the last exec_next fetched as its opcode
\* written: the cells written since construction, each with the value
\*        written last (history, read by the properties only)
VARIABLES mem, cur, registers, stack, out, res, steps, prev, prev2,
          caller, returned, frames, loaded, opcode, written

vars == <<mem, cur, registers, stack, out, res, steps, prev, prev2,
          caller, returned, frames, loaded, opcode, written>>

(* ---------------------------------------------------------------- *)
(* Program constants                                                 *)
(* ---------------------------------------------------------------- *)
MAX_ADDR == 32768
REGISTER_COUNT == 8
U16 == 65536

(* Length of the memory vector: tests::setup allocates MAX_ADDR cells. *)
MemLen == MAX_ADDR

(* ---------------------------------------------------------------- *)
(* Bounds of the model                                               *)
(* ---------------------------------------------------------------- *)
\* number of exec_next calls made on one machine
MaxSteps == 3
\* small literals 0..MaxLit are among the operand words tried
MaxLit == 3

(* ---------------------------------------------------------------- *)
(* Results: Ok(()), Err(ExecutionError), a resolved value, a panic   *)
(* ---------------------------------------------------------------- *)
Ok == [kind |-> "Ok", val |-> 0, pos |-> 0]
Val(v) == [kind |-> "Val", val |-> v, pos |-> 0]
Err(k, v, p) == [kind |-> k, val |-> v, pos |-> p]
ErrHalt == Err("Halt", 0, 0)
Panic == Err("Panic", 0, 0)
NotReturned == Err("NotReturned", 0, 0)

\* what a handler leaves behind: the machine and the value it returns
Ret(m, r) == [m |-> m, res |-> r]

(* ---------------------------------------------------------------- *)
(* Sparse memory vector                                              *)
(* ---------------------------------------------------------------- *)
Rd(mm, i) == IF i \in DOMAIN mm THEN mm[i] ELSE 0

Wr(mm, i, v) ==
  IF v = 0
  THEN [j \in (DOMAIN mm) \ {i} |-> mm[j]]
  ELSE [j \in (DOMAIN mm) \cup {i} |-> IF j = i THEN v ELSE mm[j]]

\* the vector holding seq at addresses 0.., zero elsewhere
Image(seq) ==
  [i \in {j - 1 : j \in {k \in 1..Len(seq) : seq[k] # 0}} |-> seq[i + 1]]

(* ---------------------------------------------------------------- *)
(* 16-bit bitwise operators of u16                                   *)
(* ---------------------------------------------------------------- *)
RECURSIVE BitAnd(_, _, _)
BitAnd(x, y, n) ==
  IF n = 0 THEN 0
  ELSE (IF x % 2 = 1 /\ y % 2 = 1 THEN 1 ELSE 0) + 2 * BitAnd(x \div 2, y \div 2, n - 1)

RECURSIVE BitOr(_, _, _)
BitOr(x, y, n) ==
  IF n = 0 THEN 0
  ELSE (IF x % 2 = 1 \/ y % 2 = 1 THEN 1 ELSE 0) + 2 * BitOr(x \div 2, y \div 2, n - 1)

\* !x on u16
BitNot16(x) == (U16 - 1) - x

(* ---------------------------------------------------------------- *)
(* Register and memory access (main.rs)                              *)
(* ---------------------------------------------------------------- *)
get_register_wide(m, register, pos) ==
  IF register < MAX_ADDR THEN Err("InvalidRegister", register, pos)
  ELSE IF register - MAX_ADDR <= REGISTER_COUNT
       THEN Val(m.registers[(register - MAX_ADDR) % REGISTER_COUNT])
       ELSE Err("InvalidRegister", register, pos)

get_register(m, register, pos) ==
  IF register < MAX_ADDR THEN Err("InvalidRegister", register, pos)
  ELSE IF register - MAX_ADDR < REGISTER_COUNT
       THEN Val(m.registers[register - MAX_ADDR])
       ELSE Err("InvalidRegister", register, pos)

set_register(m, register, val, pos) ==
  IF register < MAX_ADDR THEN Ret(m, Err("InvalidRegister", register, pos))
  ELSE IF register - MAX_ADDR < REGISTER_COUNT
       THEN Ret([m EXCEPT !.registers[register - MAX_ADDR] = val], Ok)
       ELSE Ret(m, Err("InvalidRegister", register, pos))

write(m, write_to, val, pos) ==
  IF write_to < MAX_ADDR
  THEN Ret([m EXCEPT !.mem = Wr(m.mem, write_to, val)], Ok)
  ELSE set_register(m, write_to, val, pos)

read(m, read_from, pos) ==
  IF read_from < MAX_ADDR
  THEN Val(Rd(m.mem, read_from))
  ELSE get_register(m, read_from, pos)

\* self.mem[i]: the raw word, or a panic past the end of the vector
Cell(m, i) == IF i < MemLen THEN Val(Rd(m.mem, i)) ELSE Panic

\* the literal test taken as val <= MAX_ADDR
Operand_inclusive(m, i, pos) ==
  IF i >= MemLen THEN Panic
  ELSE LET val == Rd(m.mem, i)
       IN IF val <= MAX_ADDR THEN Val(val) ELSE get_register(m, val, pos)

\* match self.mem[i] { val if val < MAX_ADDR => val,
\*                     val => self.get_register(val, pos)? }
Operand(m, i, pos) ==
  IF i >= MemLen THEN Panic
  ELSE LET val == Rd(m.mem, i)
       IN IF val < MAX_ADDR THEN Val(val) ELSE get_register(m, val, pos)

(* ---------------------------------------------------------------- *)
(* Opcode handlers (opcodes.rs).  m is the machine as exec_next      *)
(* hands it over: cur already points at the first operand word.      *)
(* ---------------------------------------------------------------- *)
\* Opcode 0
halt(m) == Ret(m, ErrHalt)

\* set going through the generic write
set_generic(m) ==
  LET ca == Cell(m, m.cur) IN
  IF ca.kind # "Val" THEN Ret(m, ca) ELSE
  LET b == Operand(m, m.cur + 1, m.cur + 1) IN
  IF b.kind # "Val" THEN Ret(m, b) ELSE
  LET m2 == [m EXCEPT !.cur = m.cur + 2]
  IN write(m2, ca.val, b.val, m2.cur - 2)

\* Opcode 1 a b: a is handed to set_register, never to write
set(m) ==
  LET ca == Cell(m, m.cur) IN
  IF ca.kind # "Val" THEN Ret(m, ca) ELSE
  LET b == Operand(m, m.cur + 1, m.cur + 1) IN
  IF b.kind # "Val" THEN Ret(m, b) ELSE
  LET m2 == [m EXCEPT !.cur = m.cur + 2]
  IN set_register(m2, ca.val, b.val, m2.cur - 2)

\* push putting the raw operand word on the stack before resolving it
push_before_resolving(m) ==
  LET a == Operand(m, m.cur, m.cur)
      m2 == [m EXCEPT !.stack = Append(m.stack, Rd(m.mem, m.cur))]
  IN IF a.kind # "Val" THEN Ret(m2, a) ELSE
     Ret([m EXCEPT !.stack = Append(m.stack, a.val), !.cur = m.cur + 1], Ok)

\* Opcode 2 a
push(m) ==
  LET a == Operand(m, m.cur, m.cur) IN
  IF a.kind # "Val" THEN Ret(m, a) ELSE
  Ret([m EXCEPT !.stack = Append(m.stack, a.val), !.cur = m.cur + 1], Ok)

\* Opcode 3 a: cur is left on the operand word
pop(m) ==
  IF m.stack = <<>> THEN Ret(m, Err("EmptyStack", 0, m.cur - 1)) ELSE
  LET top == m.stack[Len(m.stack)]
      m2 == [m EXCEPT !.stack = SubSeq(m.stack, 1, Len(m.stack) - 1)]
      ca == Cell(m2, m2.cur)
  IN IF ca.kind # "Val" THEN Ret(m2, ca)
     ELSE write(m2, ca.val, top, m2.cur)

\* (b == c) as u16
Bool(p) == IF p THEN 1 ELSE 0

\* eq reading c from the cell of b
eq_same_operand(m) ==
  LET b == Operand(m, m.cur + 1, m.cur + 1) IN
  IF b.kind # "Val" THEN Ret(m, b) ELSE
  LET c == Operand(m, m.cur + 1, m.cur + 1) IN
  IF c.kind # "Val" THEN Ret(m, c) ELSE
  LET m2 == [m EXCEPT !.cur = m.cur + 3]
  IN write(m2, Rd(m2.mem, m2.cur - 3), Bool(b.val = c.val), m2.cur - 3)

\* Opcode 4 a b c
eq(m) ==
  LET b == Operand(m, m.cur + 1, m.cur + 1) IN
  IF b.kind # "Val" THEN Ret(m, b) ELSE
  LET c == Operand(m, m.cur + 2, m.cur + 2) IN
  IF c.kind # "Val" THEN Ret(m, c) ELSE
  LET m2 == [m EXCEPT !.cur = m.cur + 3]
  IN write(m2, Rd(m2.mem, m2.cur - 3), Bool(b.val = c.val), m2.cur - 3)

\* Opcode 5 a b c
gt(m) ==
  LET b == Operand(m, m.cur + 1, m.cur + 1) IN
  IF b.kind # "Val" THEN Ret(m, b) ELSE
  LET c == Operand(m, m.cur + 2, m.cur + 2) IN
  IF c.kind # "Val" THEN Ret(m, c) ELSE
  LET m2 == [m EXCEPT !.cur = m.cur + 3]
  IN write(m2, Rd(m2.mem, m2.cur - 3), Bool(b.val > c.val), m2.cur - 3)

\* jmp accepting the address MAX_ADDR itself
jmp_inclusive(m) ==
  LET a == Operand(m, m.cur, m.cur) IN
  IF a.kind # "Val" THEN Ret(m, a) ELSE
  IF a.val <= MAX_ADDR
  THEN Ret([m EXCEPT !.cur = a.val], Ok)
  ELSE Ret(m, Err("InvalidAddress", a.val, m.cur))

\* Opcode 6 a
jmp(m) ==
  LET a == Operand(m, m.cur, m.cur) IN
  IF a.kind # "Val" THEN Ret(m, a) ELSE
  IF a.val < MAX_ADDR
  THEN Ret([m EXCEPT !.cur = a.val], Ok)
  ELSE Ret(m, Err("InvalidAddress", a.val, m.cur))

\* jt looking at the target only when the jump is taken
jmp_true_lazy(m) ==
  LET a == Operand(m, m.cur, m.cur) IN
  IF a.kind # "Val" THEN Ret(m, a) ELSE
  LET b == Operand(m, m.cur + 1, m.cur + 1) IN
  IF b.kind # "Val" THEN Ret(m, b) ELSE
  IF a.val = 0 THEN Ret([m EXCEPT !.cur = m.cur + 2], Ok)
  ELSE IF b.val >= MAX_ADDR THEN Ret(m, Err("InvalidAddress", b.val, m.cur + 1))
  ELSE Ret([m EXCEPT !.cur = b.val], Ok)

\* Opcode 7 a b: b is validated whether or not the jump is taken
jmp_true(m) ==
  LET a == Operand(m, m.cur, m.cur) IN
  IF a.kind # "Val" THEN Ret(m, a) ELSE
  LET b == Operand(m, m.cur + 1, m.cur + 1) IN
  IF b.kind # "Val" THEN Ret(m, b) ELSE
  IF b.val >= MAX_ADDR THEN Ret(m, Err("InvalidAddress", b.val, m.cur + 1))
  ELSE IF a.val # 0 THEN Ret([m EXCEPT !.cur = b.val], Ok)
  ELSE Ret([m EXCEPT !.cur = m.cur + 2], Ok)

\* Opcode 8 a b
jmp_false(m) ==
  LET a == Operand(m, m.cur, m.cur) IN
  IF a.kind # "Val" THEN Ret(m, a) ELSE
  LET b == Operand(m, m.cur + 1, m.cur + 1) IN
  IF b.kind # "Val" THEN Ret(m, b) ELSE
  IF b.val >= MAX_ADDR THEN Ret(m, Err("InvalidAddress", b.val, m.cur + 1))
  ELSE IF a.val = 0 THEN Ret([m EXCEPT !.cur = b.val], Ok)
  ELSE Ret([m EXCEPT !.cur = m.cur + 2], Ok)

\* the sum wrapped to u16 instead of reduced modulo MAX_ADDR
add_val_wrapping(b, c) == (b + c) % U16

\* ((b + c) % MAX_ADDR) as u16, b and c widened to usize
add_val(b, c) == (b + c) % MAX_ADDR

\* Opcode 9 a b c
add(m) ==
  LET ca == Cell(m, m.cur) IN
  IF ca.kind # "Val" THEN Ret(m, ca) ELSE
  LET b == Operand(m, m.cur + 1, m.cur + 1) IN
  IF b.kind # "Val" THEN Ret(m, b) ELSE
  LET c == Operand(m, m.cur + 2, m.cur + 2) IN
  IF c.kind # "Val" THEN Ret(m, c) ELSE
  LET m2 == [m EXCEPT !.cur = m.cur + 3]
  IN write(m2, ca.val, add_val(b.val, c.val), m2.cur - 3)

\* ((b * c) % MAX_ADDR) as u16, b and c widened to usize: the product of
\* two u16 is below 2^32 and never wraps in usize.  The model checker's
\* integers are 32-bit signed, so the product is taken of the factors
\* reduced modulo MAX_ADDR, which has the same remainder.
mult_val(b, c) == ((b % MAX_ADDR) * (c % MAX_ADDR)) % MAX_ADDR

\* Opcode 10 a b c
mult(m) ==
  LET ca == Cell(m, m.cur) IN
  IF ca.kind # "Val" THEN Ret(m, ca) ELSE
  LET b == Operand(m, m.cur + 1, m.cur + 1) IN
  IF b.kind # "Val" THEN Ret(m, b) ELSE
  LET c == Operand(m, m.cur + 2, m.cur + 2) IN
  IF c.kind # "Val" THEN Ret(m, c) ELSE
  LET m2 == [m EXCEPT !.cur = m.cur + 3]
  IN write(m2, ca.val, mult_val(b.val, c.val), m2.cur - 3)

\* Opcode 11 a b c: b % c on u16 panics when c is 0
modulo(m) ==
  LET ca == Cell(m, m.cur) IN
  IF ca.kind # "Val" THEN Ret(m, ca) ELSE
  LET b == Operand(m, m.cur + 1, m.cur + 1) IN
  IF b.kind # "Val" THEN Ret(m, b) ELSE
  LET c == Operand(m, m.cur + 2, m.cur + 2) IN
  IF c.kind # "Val" THEN Ret(m, c) ELSE
  LET m2 == [m EXCEPT !.cur = m.cur + 3]
  IN IF c.val = 0 THEN Ret(m2, Panic)
     ELSE write(m2, ca.val, b.val % c.val, m2.cur - 3)

\* Opcode 12 a b c
and(m) ==
  LET ca == Cell(m, m.cur) IN
  IF ca.kind # "Val" THEN Ret(m, ca) ELSE
  LET b == Operand(m, m.cur + 1, m.cur + 1) IN
  IF b.kind # "Val" THEN Ret(m, b) ELSE
  LET c == Operand(m, m.cur + 2, m.cur + 2) IN
  IF c.kind # "Val" THEN Ret(m, c) ELSE
  LET m2 == [m EXCEPT !.cur = m.cur + 3]
  IN write(m2, ca.val, BitAnd(b.val, c.val, 16), m2.cur - 3)

\* Opcode 13 a b c
or(m) ==
  LET ca == Cell(m, m.cur) IN
  IF ca.kind # "Val" THEN Ret(m, ca) ELSE
  LET b == Operand(m, m.cur + 1, m.cur + 1) IN
  IF b.kind # "Val" THEN Ret(m, b) ELSE
  LET c == Operand(m, m.cur + 2, m.cur + 2) IN
  IF c.kind # "Val" THEN Ret(m, c) ELSE
  LET m2 == [m EXCEPT !.cur = m.cur + 3]
  IN write(m2, ca.val, BitOr(b.val, c.val, 16), m2.cur - 3)

\* Opcode 14 a b: !b is the complement of all 16 bits
not(m) ==
  LET ca == Cell(m, m.cur) IN
  IF ca.kind # "Val" THEN Ret(m, ca) ELSE
  LET b == Operand(m, m.cur + 1, m.cur + 1) IN
  IF b.kind # "Val" THEN Ret(m, b) ELSE
  LET m2 == [m EXCEPT !.cur = m.cur + 2]
  IN write(m2, ca.val, BitNot16(b.val), m2.cur - 2)

\* Opcode 15 a b: the value read is stored in the cell of operand a
rmem(m) ==
  LET b == Operand(m, m.cur + 1, m.cur + 1) IN
  IF b.kind # "Val" THEN Ret(m, b) ELSE
  LET v == read(m, b.val, m.cur + 1) IN
  IF v.kind # "Val" THEN Ret(m, v) ELSE
  Ret([m EXCEPT !.mem = Wr(m.mem, m.cur, v.val), !.cur = m.cur + 2], Ok)

\* Opcode 16 a b: resolved b is read once more, the result goes to write(a)
\* (dbg! echoes the value on standard error, which is not modelled)
wmem(m) ==
  LET ca == Cell(m, m.cur) IN
  IF ca.kind # "Val" THEN Ret(m, ca) ELSE
  LET b == Operand(m, m.cur + 1, m.cur + 1) IN
  IF b.kind # "Val" THEN Ret(m, b) ELSE
  LET m2 == [m EXCEPT !.cur = m.cur + 2]
      v == read(m2, b.val, m2.cur - 1)
  IN IF v.kind # "Val" THEN Ret(m2, v)
     ELSE write(m2, ca.val, v.val, m2.cur - 2)

\* call pushing the address of its operand as the return address
call_returning_to_operand(m) ==
  LET m2 == [m EXCEPT !.stack = Append(m.stack, m.cur)]
      ca == Cell(m2, m2.cur)
  IN IF ca.kind # "Val" THEN Ret(m2, ca)
     ELSE IF ca.val < MAX_ADDR
          THEN Ret([m2 EXCEPT !.cur = ca.val], Ok)
          ELSE Ret(m2, Err("InvalidAddress", ca.val, m2.cur))

\* Opcode 17 a: the return address is pushed before a is looked at,
\* and a register reference is not resolved
call(m) ==
  LET m2 == [m EXCEPT !.stack = Append(m.stack, m.cur + 1)]
      ca == Cell(m2, m2.cur)
  IN IF ca.kind # "Val" THEN Ret(m2, ca)
     ELSE IF ca.val < MAX_ADDR
          THEN Ret([m2 EXCEPT !.cur = ca.val], Ok)
          ELSE Ret(m2, Err("InvalidAddress", ca.val, m2.cur))

\* ret treating the empty stack as pop does
ret_faulting(m) ==
  IF m.stack = <<>> THEN Ret(m, Err("EmptyStack", 0, m.cur - 1)) ELSE
  LET ret_to == m.stack[Len(m.stack)]
      m2 == [m EXCEPT !.stack = SubSeq(m.stack, 1, Len(m.stack) - 1)]
  IN IF ret_to < MAX_ADDR
     THEN Ret([m2 EXCEPT !.cur = ret_to], Ok)
     ELSE Ret(m2, Err("InvalidAddress", ret_to, m2.cur))

\* Opcode 18
ret(m) ==
  IF m.stack = <<>> THEN Ret(m, ErrHalt) ELSE
  LET ret_to == m.stack[Len(m.stack)]
      m2 == [m EXCEPT !.stack = SubSeq(m.stack, 1, Len(m.stack) - 1)]
  IN IF ret_to < MAX_ADDR
     THEN Ret([m2 EXCEPT !.cur = ret_to], Ok)
     ELSE Ret(m2, Err("InvalidAddress", ret_to, m2.cur))

\* print!("{ch}") of (val as u8 as char): the UTF-8 bytes of U+0000..U+00FF
Utf8(ch) ==
  IF ch < 128 THEN <<ch>> ELSE <<192 + (ch \div 64), 128 + (ch % 64)>>

\* out printing the low byte of the operand word, unresolved
char_out_raw(m) ==
  LET a == Cell(m, m.cur) IN
  IF a.kind # "Val" THEN Ret(m, a) ELSE
  Ret([m EXCEPT !.out = m.out \o Utf8(a.val % 256), !.cur = m.cur + 1], Ok)

\* Opcode 19 a
char_out(m) ==
  LET a == Operand(m, m.cur, m.cur) IN
  IF a.kind # "Val" THEN Ret(m, a) ELSE
  Ret([m EXCEPT !.out = m.out \o Utf8(a.val % 256), !.cur = m.cur + 1], Ok)

\* Opcode 21
no_op(m) == Ret(m, Ok)

(* ---------------------------------------------------------------- *)
(* Inputs: memory images, register and stack presets                 *)
(* ---------------------------------------------------------------- *)
\* operand words tried: small literals, the largest literal, the first,
\* second and last register reference, the first word past the
\* registers and the largest u16
Words ==
  (0..MaxLit) \cup {MAX_ADDR - 1, MAX_ADDR, MAX_ADDR + 1,
                   MAX_ADDR + REGISTER_COUNT - 1, MAX_ADDR + REGISTER_COUNT,
                   U16 - 1}

\* first words tried: every opcode value of the dispatcher, the value
\* after the last one and u16::MAX (tests::invalid_opcode)
OpWords == (0..22) \cup {U16 - 1}

\* one instruction at address 0 followed by whatever its unused operand
\* words decode to
GeneratedImages ==
  {Image(<<op, x, y, z>>) : op \in OpWords, x \in Words, y \in Words, z \in Words}

\* push a immediately followed by pop d
PushPopImages == {Image(<<2, a, 3, d>>) : a \in Words, d \in Words}

\* a jump to the last cell of the address space, which holds a one-word
\* instruction
EdgeImages ==
  {[i \in {0, 1, MAX_ADDR - 1} |->
      IF i = 0 THEN 6 ELSE IF i = 1 THEN MAX_ADDR - 1 ELSE op] : op \in {21, 18}}

\* an add that writes its sum (19 out, 21 noop, 22 no opcode) into the
\* cell that follows it, which is fetched next
SelfModifyingImages ==
  {Image(<<9, 4, b, c, z>>) : b \in {19, 21}, c \in {0, 1}, z \in {0, 6, 21}}

\* a call (to a literal address, through register 0, or to a word that
\* is no operand), then up to two instructions and a ret
CallRetImages ==
  {Image(<<17, t, 0, x, y, 18>>) :
     t \in {3, MAX_ADDR, MAX_ADDR + REGISTER_COUNT},
     x \in {18, 21, 2, 3}, y \in {18, 21, 5}}

Regs(r0, r1, r7) ==
  [i \in 0..(REGISTER_COUNT - 1) |->
     IF i = 0 THEN r0 ELSE IF i = 1 THEN r1 ELSE IF i = 7 THEN r7 ELSE 0]

\* registers: [0; REGISTER_COUNT] of MachineState::new, and contents
\* that not / pop leave behind (values up to u16::MAX)
FreshRegs == Regs(0, 0, 0)
UsedRegs == Regs(MAX_ADDR, U16 - 1, 3)

\* MachineState::new(mem), then the public fields preset as the tests do
New(image, regs, stk) ==
  [mem |-> image, cur |-> 0, registers |-> regs, stack |-> stk, out |-> <<>>]

\* the machines of the unit tests of opcodes.rs and of the scenarios
TestMachines ==
  { New(Image(<<1, MAX_ADDR, 10>>), FreshRegs, <<>>),
    New(Image(<<2, 10>>), FreshRegs, <<>>),
    New(Image(<<3>>), FreshRegs, <<10>>),
    New(Image(<<4, 0, 2, 2, 4, 0, 2, 1>>), FreshRegs, <<>>),
    New(Image(<<5, 0, 2, 1, 5, 0, 2, 2>>), FreshRegs, <<>>),
    New(Image(<<6, 10>>), FreshRegs, <<>>),
    New(Image(<<7, 1, 4, 0, 7, 0, 0>>), FreshRegs, <<>>),
    New(Image(<<8, 0, 4, 0, 8, 1, 0>>), FreshRegs, <<>>),
    New(Image(<<11, 0, 6, 3, 11, 0, 5, 3>>), FreshRegs, <<>>),
    New(Image(<<14, 0, 1>>), FreshRegs, <<>>),
    New(Image(<<18, 18>>), FreshRegs, <<>>),
    New(Image(<<19, 97>>), FreshRegs, <<>>),
    New(Image(<<9, 32768, 32769, 4, 19, 32768>>), Regs(0, 60, 0), <<>>) }

GeneratedMachines ==
  {New(image, regs, stk) :
     image \in GeneratedImages \cup PushPopImages \cup EdgeImages
                \cup CallRetImages \cup SelfModifyingImages,
     regs \in {FreshRegs, UsedRegs},
     stk \in {<<>>, <<10>>}}

Machines == GeneratedMachines \cup TestMachines

(* ---------------------------------------------------------------- *)
(* MachineState::run (main.rs): for _ in 0..MAX_ADDR { exec_next()? } *)
(* ---------------------------------------------------------------- *)
\* if let Err(err) = self.exec_next() { return Err(err); }: the loop
\* goes on only after Ok (a panic unwinds out of run)
run_continues(r) == r.kind = "Ok"

\* run reporting only that it stopped, not why
run_result_halt(r, n) ==
  IF r.kind = "Panic" THEN NotReturned
  ELSE IF r.kind # "Ok" THEN ErrHalt
  ELSE IF n = MAX_ADDR THEN Ok
  ELSE NotReturned

\* what run has returned once its n-th exec_next returned r: Err(err)
\* at once, Ok(()) when the range 0..MAX_ADDR is used up
run_result(r, n) ==
  IF r.kind = "Panic" THEN NotReturned
  ELSE IF r.kind # "Ok" THEN r
  ELSE IF n = MAX_ADDR THEN Ok
  ELSE NotReturned

\* the number of exec_next calls the caller makes at most
Limit == IF caller = "run" THEN MAX_ADDR ELSE MaxSteps

(* ---------------------------------------------------------------- *)
(* The state machine: exec_next called by a unit test or by run      *)
(* ---------------------------------------------------------------- *)
Machine == [mem |-> mem, cur |-> cur, registers |-> registers,
            stack |-> stack, out |-> out]

\* the machine m0 before its first instruction
Start(m0) ==
  /\ mem = m0.mem
  /\ cur = m0.cur
  /\ registers = m0.registers
  /\ stack = m0.stack
  /\ out = m0.out
  /\ prev = m0
  /\ prev2 = m0
  /\ res = Ok
  /\ steps = 0
  /\ returned = NotReturned
  /\ frames = <<>>
  /\ loaded = m0.mem
  /\ opcode = 0
  /\ written = <<>>

Init ==
  /\ \E m0 \in Machines : Start(m0)
  /\ caller = "tests"

\* self.cur += 1
Fetched == [Machine EXCEPT !.cur = cur + 1]

\* the opcode fetched from a copy of the program made at construction
Dispatch_stale(op) ==
  /\ run_continues(res)
  /\ steps < Limit
  /\ cur < MemLen
  /\ Rd(loaded, cur) = op
  /\ opcode' = op

\* match self.mem[self.cur as usize - 1] { op => ... }
Dispatch(op) ==
  /\ run_continues(res)
  /\ steps < Limit
  /\ cur < MemLen
  /\ Rd(mem, cur) = op
  /\ opcode' = op

\* the cells written so far once the step r is done: those the step
\* changed carry their new value
WrittenAfter(r) ==
  LET changed == {k \in (DOMAIN mem) \cup (DOMAIN r.m.mem) :
                    Rd(mem, k) # Rd(r.m.mem, k)}
  IN [k \in (DOMAIN written) \cup changed |->
        IF k \in changed THEN Rd(r.m.mem, k) ELSE written[k]]

\* the calls whose return address is still on the stack after the
\* step r: a frame goes when the stack gets shorter than it was right
\* after the call, and a successful call at cur adds its own
FramesAfter(r) ==
  LET kept == SelectSeq(frames, LAMBDA f : f.depth <= Len(r.m.stack))
  IN IF cur < MemLen /\ Rd(mem, cur) = 17 /\ r.res = Ok
     THEN Append(kept, [depth |-> Len(stack) + 1, pos |-> cur,
                        before |-> stack])
     ELSE kept

Commit(r) ==
  /\ mem' = r.m.mem
  /\ cur' = r.m.cur
  /\ registers' = r.m.registers
  /\ stack' = r.m.stack
  /\ out' = r.m.out
  /\ res' = r.res
  /\ steps' = steps + 1
  /\ prev' = Machine
  /\ prev2' = prev
  /\ caller' = caller
  /\ returned' = IF caller = "run" THEN run_result(r.res, steps + 1)
                                   ELSE returned
  /\ frames' = FramesAfter(r)
  /\ loaded' = loaded
  /\ written' = WrittenAfter(r)

Halt == Dispatch(0) /\ Commit(halt(Fetched))
Set == Dispatch(1) /\ Commit(set(Fetched))
Push == Dispatch(2) /\ Commit(push(Fetched))
Pop == Dispatch(3) /\ Commit(pop(Fetched))
Eq == Dispatch(4) /\ Commit(eq(Fetched))
Gt == Dispatch(5) /\ Commit(gt(Fetched))
Jmp == Dispatch(6) /\ Commit(jmp(Fetched))
JmpTrue == Dispatch(7) /\ Commit(jmp_true(Fetched))
JmpFalse == Dispatch(8) /\ Commit(jmp_false(Fetched))
Add == Dispatch(9) /\ Commit(add(Fetched))
Mult == Dispatch(10) /\ Commit(mult(Fetched))
Modulo == Dispatch(11) /\ Commit(modulo(Fetched))
And == Dispatch(12) /\ Commit(and(Fetched))
Or == Dispatch(13) /\ Commit(or(Fetched))
Not == Dispatch(14) /\ Commit(not(Fetched))
Rmem == Dispatch(15) /\ Commit(rmem(Fetched))
Wmem == Dispatch(16) /\ Commit(wmem(Fetched))
Call == Dispatch(17) /\ Commit(call(Fetched))
RetOp == Dispatch(18) /\ Commit(ret(Fetched))
CharOut == Dispatch(19) /\ Commit(char_out(Fetched))
NoOp == Dispatch(21) /\ Commit(no_op(Fetched))

\* op => Err(ExecutionError::InvalidOpcode(op, self.cur - 1))
InvalidOpcode ==
  /\ run_continues(res)
  /\ steps < Limit
  /\ cur < MemLen
  /\ Rd(mem, cur) \notin ((0..19) \cup {21})
  /\ opcode' = Rd(mem, cur)
  /\ Commit(Ret(Fetched, Err("InvalidOpcode", Rd(mem, cur), Fetched.cur - 1)))

\* self.mem[self.cur as usize - 1] with cur past the last cell
FetchOutOfBounds ==
  /\ run_continues(res)
  /\ steps < Limit
  /\ cur >= MemLen
  /\ opcode' = opcode
  /\ Commit(Ret(Fetched, Panic))

Next ==
  \/ Halt \/ Set \/ Push \/ Pop \/ Eq \/ Gt \/ Jmp \/ JmpTrue \/ JmpFalse
  \/ Add \/ Mult \/ Modulo \/ And \/ Or \/ Not \/ Rmem \/ Wmem \/ Call
  \/ RetOp \/ CharOut \/ NoOp \/ InvalidOpcode \/ FetchOutOfBounds

Spec == Init /\ [][Next]_vars

(* ---------------------------------------------------------------- *)
(* The machine driven by run, as main does                           *)
(* ---------------------------------------------------------------- *)
\* programs given to run: jmp 0 (it never halts), the remaining unit
\* tests of opcodes.rs, a fault after a first instruction, and the
\* counter running off the memory
RunImages ==
  { Image(<<6, 0>>),
    Image(<<10, 0, 2, 3>>),
    Image(<<12, 0, 1, 3>>),
    Image(<<13, 0, 1, 2>>),
    Image(<<15, 0, 0>>),
    Image(<<16, 0, 1>>),
    Image(<<17, 3, 0, 18>>),
    Image(<<21>>),
    Image(<<U16 - 1>>),
    Image(<<21, U16 - 1>>) } \cup EdgeImages

RunMachines ==
  TestMachines \cup {New(image, FreshRegs, <<>>) : image \in RunImages}

InitRun ==
  /\ \E m0 \in RunMachines : Start(m0)
  /\ caller = "run"

SpecRun == InitRun /\ [][Next]_vars

(* ---------------------------------------------------------------- *)
(* Vocabulary of the properties: the last instruction executed       *)
(* ---------------------------------------------------------------- *)
\* the last exec_next fetched opcode op
LastOp(op) == steps > 0 /\ prev.cur < MemLen /\ Rd(prev.mem, prev.cur) = op

\* k-th operand word of the last instruction; it lies in memory
HasOperands(n) == prev.cur + n < MemLen
PW(k) == Rd(prev.mem, prev.cur + k)

IsRegister(w) == w >= 32768 /\ w < 32776
IsInvalid(w) == w >= 32776

\* what the architecture resolves word w to, before the last instruction
Resolved(w) == IF w < 32768 THEN w ELSE prev.registers[w - 32768]

\* what destination word a holds now
DestVal(a) == IF a < 32768 THEN Rd(mem, a) ELSE registers[a - 32768]

\* nothing but destination a differs from the machine before the step
OnlyDestChanged(a) ==
  /\ \A i \in (DOMAIN mem) \cup (DOMAIN prev.mem) :
       i # a => Rd(mem, i) = Rd(prev.mem, i)
  /\ \A r \in 0..7 : r + 32768 # a => registers[r] = prev.registers[r]
  /\ stack = prev.stack
  /\ out = prev.out

\* x * y modulo 32768 by long multiplication on the bytes of y
ProdMod(x, y) ==
  ((((x * (y \div 256)) % 32768) * 256) + x * (y % 256)) % 32768

\* the source operands of the instructions that resolve them inline
SourceOffsets(op) ==
  CASE op \in {2, 6, 19} -> <<1>>
    [] op \in {7, 8} -> <<1, 2>>
    [] op = 14 -> <<2>>
    [] op \in {4, 5, 9, 10, 11, 12, 13} -> <<2, 3>>
    [] OTHER -> <<>>

\* the value a two-source instruction computes from resolved b and c
Computes(op, b, c) ==
  CASE op = 4 -> Bool(b = c)
    [] op = 5 -> Bool(b > c)
    [] op = 9 -> (b + c) % 32768
    [] op = 10 -> ProdMod(b, c)
    [] op = 11 -> b % c
    [] op = 12 -> BitAnd(b, c, 16)
    [] op = 13 -> BitOr(b, c, 16)

(* ---------------------------------------------------------------- *)
(* C1: read resolution of a source operand word w by push, eq, gt,   *)
(* jmp, jt, jf, add, mult, mod, and, or, not and out: w < 32768 is    *)
(* used as the value w, w in [32768, 32776) as the content of         *)
(* register w - 32768, and w >= 32776 makes the instruction fail with *)
(* InvalidRegister (naming the first such word and its address).      *)
(* ---------------------------------------------------------------- *)
C1_Sources == SourceOffsets(Rd(prev.mem, prev.cur))

C1_FirstInvalid ==
  LET bad == {k \in 1..Len(C1_Sources) : IsInvalid(PW(C1_Sources[k]))}
  IN IF bad = {} THEN 0
     ELSE C1_Sources[CHOOSE k \in bad : \A j \in bad : k <= j]

C1_Effect(op) ==
  CASE op = 2 -> stack = Append(prev.stack, Resolved(PW(1)))
    [] op = 6 -> IF Resolved(PW(1)) < 32768
                 THEN res = Ok /\ cur = Resolved(PW(1))
                 ELSE res = Err("InvalidAddress", Resolved(PW(1)), prev.cur + 1)
    [] op = 7 -> IF Resolved(PW(2)) >= 32768
                 THEN res = Err("InvalidAddress", Resolved(PW(2)), prev.cur + 2)
                 ELSE cur = IF Resolved(PW(1)) # 0 THEN Resolved(PW(2))
                                                   ELSE prev.cur + 3
    [] op = 8 -> IF Resolved(PW(2)) >= 32768
                 THEN res = Err("InvalidAddress", Resolved(PW(2)), prev.cur + 2)
                 ELSE cur = IF Resolved(PW(1)) = 0 THEN Resolved(PW(2))
                                                   ELSE prev.cur + 3
    [] op = 19 -> out = prev.out \o Utf8(Resolved(PW(1)) % 256)
    [] op = 14 -> IsInvalid(PW(1)) \/ DestVal(PW(1)) = 65535 - Resolved(PW(2))
    [] op \in {4, 5, 9, 10, 11, 12, 13} ->
         IF op = 11 /\ Resolved(PW(3)) = 0 THEN res = Panic
         ELSE \/ IsInvalid(PW(1))
              \/ DestVal(PW(1)) = Computes(op, Resolved(PW(2)), Resolved(PW(3)))

C1_ReadResolution ==
  \A op \in {2, 4, 5, 6, 7, 8, 9, 10, 11, 12, 13, 14, 19} :
    (LastOp(op) /\ HasOperands(C1_Sources[Len(C1_Sources)])) =>
       IF C1_FirstInvalid # 0
       THEN res = Err("InvalidRegister", PW(C1_FirstInvalid),
                      prev.cur + C1_FirstInvalid)
       ELSE C1_Effect(op)

\* a push of a reference to register 1 pushed the register's content
C1_Witness ==
  /\ LastOp(2) /\ PW(1) = 32769 /\ prev.registers[1] = 65535
  /\ res = Ok /\ stack = Append(prev.stack, 65535)

(* ---------------------------------------------------------------- *)
(* C2: for every pair of resolved operand values b and c, the        *)
(* maximum u16 included, add stores (b + c) mod 32768 and mult stores *)
(* (b * c) mod 32768 into the destination; what is stored lies in     *)
(* [0, 32768).                                                        *)
(* ---------------------------------------------------------------- *)
C2_AddMultModular ==
  \A op \in {9, 10} :
    (/\ LastOp(op) /\ HasOperands(3)
     /\ ~IsInvalid(PW(1)) /\ ~IsInvalid(PW(2)) /\ ~IsInvalid(PW(3))) =>
       LET b == Resolved(PW(2))
           c == Resolved(PW(3))
       IN /\ res = Ok
          /\ DestVal(PW(1)) = IF op = 9 THEN (b + c) % 32768 ELSE ProdMod(b, c)
          /\ DestVal(PW(1)) >= 0
          /\ DestVal(PW(1)) < 32768

\* add of register 1 to itself, the register holding 65535
C2_Witness ==
  /\ LastOp(9) /\ PW(1) = 0 /\ PW(2) = 32769 /\ PW(3) = 32769
  /\ prev.registers[1] = 65535
  /\ res = Ok /\ Rd(mem, 0) = 32766

(* ---------------------------------------------------------------- *)
(* C3: not a b stores the 15-bit complement of resolved b: the value  *)
(* stored is below 32768 (bit 15 clear), and it is 32767 - b for b in *)
(* [0, 32768), which makes not its own inverse there.                 *)
(* ---------------------------------------------------------------- *)
C3_NotFifteenBit ==
  (/\ LastOp(14) /\ HasOperands(2)
   /\ ~IsInvalid(PW(1)) /\ ~IsInvalid(PW(2))) =>
     /\ DestVal(PW(1)) < 32768
     /\ Resolved(PW(2)) < 32768 => DestVal(PW(1)) = 32767 - Resolved(PW(2))

(* ---------------------------------------------------------------- *)
(* C4: push a at p immediately followed by pop d at p + 2 delivers    *)
(* the pushed value to d, leaves the stack as it was before the push  *)
(* and leaves the program counter at p + 4.                           *)
(* ---------------------------------------------------------------- *)
\* the last two calls executed push at p and then pop at p + 2
C4_PushThenPop ==
  /\ steps >= 2
  /\ prev2.cur + 3 < MemLen
  /\ Rd(prev2.mem, prev2.cur) = 2
  /\ prev.cur = prev2.cur + 2
  /\ Rd(prev.mem, prev.cur) = 3
  /\ ~IsInvalid(PW(1))

C4_PushPopIdentity ==
  C4_PushThenPop =>
    /\ res = Ok
    /\ DestVal(PW(1)) = prev.stack[Len(prev.stack)]
    /\ stack = prev2.stack
    /\ cur = prev2.cur + 4

(* ---------------------------------------------------------------- *)
(* C5: pop with an empty stack fails with EmptyStack carrying the     *)
(* position of the pop instruction and writes nothing; ret with an    *)
(* empty stack yields Halt and no fault.                              *)
(* ---------------------------------------------------------------- *)
C5_EmptyStackPolicies ==
  /\ (LastOp(3) /\ prev.stack = <<>>) =>
        /\ res = Err("EmptyStack", 0, prev.cur)
        /\ mem = prev.mem
        /\ registers = prev.registers
        /\ stack = <<>>
        /\ out = prev.out
  /\ (LastOp(18) /\ prev.stack = <<>>) => res = ErrHalt

\* a pop at address 1 found the stack empty
C5_Witness ==
  /\ LastOp(3) /\ prev.cur = 1 /\ prev.stack = <<>>
  /\ res = Err("EmptyStack", 0, 1)

(* ---------------------------------------------------------------- *)
(* C6: jmp, jt, jf and call whose target address is >= 32768 fail     *)
(* with InvalidAddress and leave the program counter below 32768,     *)
(* whether the target is a literal operand or the content of a        *)
(* register.  The target of jmp and call is operand a, of jt and jf   *)
(* operand b, resolved.                                               *)
(* ---------------------------------------------------------------- *)
C6_Target(op) == IF op \in {6, 17} THEN Resolved(PW(1)) ELSE Resolved(PW(2))

C6_Resolves(op) ==
  IF op \in {6, 17} THEN HasOperands(1) /\ ~IsInvalid(PW(1))
  ELSE HasOperands(2) /\ ~IsInvalid(PW(1)) /\ ~IsInvalid(PW(2))

C6_JumpTargetChecked ==
  \A op \in {6, 7, 8, 17} :
    (LastOp(op) /\ C6_Resolves(op) /\ C6_Target(op) >= 32768) =>
       /\ res.kind = "InvalidAddress"
       /\ op # 17 => res.val = C6_Target(op)
       /\ cur < 32768

\* a jmp through register 1, which held 65535
C6_Witness ==
  /\ LastOp(6) /\ PW(1) = 32769 /\ prev.registers[1] = 65535
  /\ res = Err("InvalidAddress", 65535, prev.cur + 1)
  /\ cur = prev.cur + 1

(* ---------------------------------------------------------------- *)
(* C7: memory [6, 32768], program counter 0, fresh machine.           *)
(* As claimed: the jmp fails with InvalidAddress(32768, 1) and does   *)
(* not transfer control.                                              *)
(* As the code has it: the word 32768 is a reference to register 0;   *)
(* the jmp reads register 0, which is 0 on a fresh machine, succeeds  *)
(* and sets the program counter to 0.  InvalidAddress(v, 1) comes     *)
(* out only when register 0 holds a value v >= 32768.                 *)
(* ---------------------------------------------------------------- *)
C7_Image == Image(<<6, 32768>>)

C7_Fresh == New(C7_Image, FreshRegs, <<>>)

C7_BoundaryJmpFaults ==
  (steps = 1 /\ prev = C7_Fresh) =>
     /\ res = Err("InvalidAddress", 32768, 1)
     /\ cur = 1

C7_BoundaryJmpReadsRegister ==
  (steps = 1 /\ prev.mem = C7_Image /\ prev.cur = 0) =>
     IF prev.registers[0] < 32768
     THEN res = Ok /\ cur = prev.registers[0]
     ELSE res = Err("InvalidAddress", prev.registers[0], 1) /\ cur = 1

\* the fresh machine jumped to address 0
C7_Witness ==
  /\ steps = 1 /\ prev = C7_Fresh
  /\ res = Ok /\ cur = 0

(* ---------------------------------------------------------------- *)
(* C8: memory [9, 32768, 32769, 4, 19, 32768] with register 1 preset  *)
(* to 60: the first step (add) stores 64 into register 0 and leaves   *)
(* the program counter at 4; the second step (out) emits exactly one  *)
(* byte, 64, and leaves the program counter at 6; neither faults.     *)
(* ---------------------------------------------------------------- *)
C8_Start == New(Image(<<9, 32768, 32769, 4, 19, 32768>>), Regs(0, 60, 0), <<>>)

C8_MiniProgram ==
  /\ (steps = 1 /\ prev = C8_Start) =>
        /\ res = Ok
        /\ registers = Regs(64, 60, 0)
        /\ cur = 4
        /\ out = <<>>
  /\ (steps = 2 /\ prev2 = C8_Start) =>
        /\ res = Ok
        /\ registers = Regs(64, 60, 0)
        /\ cur = 6
        /\ out = <<64>>

\* both steps of the program were executed
C8_Witness ==
  /\ steps = 2 /\ prev2 = C8_Start
  /\ LastOp(19) /\ out = <<64>> /\ cur = 6

(* ---------------------------------------------------------------- *)
(* C9: set a b with resolved b.                                       *)
(* As claimed: the value goes to destination a under the generic      *)
(* write rule and the program counter advances by 3: register         *)
(* a - 32768 if a is in [32768, 32776), memory cell a without a fault *)
(* if a < 32768, InvalidRegister if a >= 32776.                       *)
(* As the code has it: a is only ever a register.  If a is in         *)
(* [32768, 32776) register a - 32768 receives the value (memory       *)
(* [1, 32768, 10] puts 10 into register 0, counter 3); if a < 32768   *)
(* or a >= 32776 the instruction fails with InvalidRegister(a) at the *)
(* address of a, and neither memory nor a register is written; the    *)
(* program counter is advanced by 3 in all three cases.               *)
(* ---------------------------------------------------------------- *)
C9_SetExecuted == LastOp(1) /\ HasOperands(2) /\ ~IsInvalid(PW(2))

C9_Scenario ==
  (steps = 1 /\ prev = New(Image(<<1, 32768, 10>>), FreshRegs, <<>>)) =>
     res = Ok /\ registers[0] = 10 /\ cur = 3

C9_SetGenericWrite ==
  /\ C9_Scenario
  /\ C9_SetExecuted =>
       LET a == PW(1)
           b == Resolved(PW(2))
       IN IF IsInvalid(a) THEN res.kind = "InvalidRegister"
          ELSE /\ res = Ok
               /\ DestVal(a) = b
               /\ cur = prev.cur + 3

C9_SetRegisterOnly ==
  /\ C9_Scenario
  /\ C9_SetExecuted =>
       LET a == PW(1)
           b == Resolved(PW(2))
       IN /\ cur = prev.cur + 3
          /\ mem = prev.mem
          /\ stack = prev.stack
          /\ IF IsRegister(a)
             THEN /\ res = Ok
                  /\ registers = [prev.registers EXCEPT ![a - 32768] = b]
             ELSE /\ res = Err("InvalidRegister", a, prev.cur + 1)
                  /\ registers = prev.registers

\* a set whose destination word is the memory address 2
C9_Witness ==
  /\ C9_SetExecuted /\ PW(1) = 2 /\ PW(2) = 1
  /\ res = Err("InvalidRegister", 2, prev.cur + 1)
  /\ mem = prev.mem

(* ---------------------------------------------------------------- *)
(* C10: eq a b c writes 1 into destination a when the resolved values *)
(* of b and c are equal and 0 otherwise, changes no other memory      *)
(* cell, register or stack entry, and advances the program counter by *)
(* 4 (memory [4,0,2,2,4,0,2,1]: the first step writes 1 to cell 0 and *)
(* the counter is 4, the second writes 0 to cell 0 and the counter is *)
(* 8).                                                                *)
(* ---------------------------------------------------------------- *)
C10_Start == New(Image(<<4, 0, 2, 2, 4, 0, 2, 1>>), FreshRegs, <<>>)

C10_EqWritesFlag ==
  /\ (/\ LastOp(4) /\ HasOperands(3)
      /\ ~IsInvalid(PW(1)) /\ ~IsInvalid(PW(2)) /\ ~IsInvalid(PW(3))) =>
        /\ res = Ok
        /\ DestVal(PW(1)) = IF Resolved(PW(2)) = Resolved(PW(3)) THEN 1 ELSE 0
        /\ OnlyDestChanged(PW(1))
        /\ cur = prev.cur + 4
  /\ (steps = 1 /\ prev = C10_Start) => res = Ok /\ Rd(mem, 0) = 1 /\ cur = 4
  /\ (steps = 2 /\ prev2 = C10_Start) => res = Ok /\ Rd(mem, 0) = 0 /\ cur = 8

\* the second eq of the scenario compared 2 with 1
C10_Witness ==
  /\ steps = 2 /\ prev2 = C10_Start
  /\ LastOp(4) /\ prev.cur = 4 /\ Rd(prev.mem, 0) = 1
  /\ Rd(mem, 0) = 0 /\ cur = 8

(* ---------------------------------------------------------------- *)
(* C11: a step fails with InvalidOpcode(v, p) exactly when the word v *)
(* fetched at position p is not one of the opcodes 0..21: every value *)
(* above 21 yields InvalidOpcode with that value and position, and    *)
(* every value 0..21, 20 (in) included, is dispatched to its handler  *)
(* and never yields InvalidOpcode.                                    *)
(* ---------------------------------------------------------------- *)
C11_InvalidOpcodeIffAbove21 ==
  (steps > 0 /\ prev.cur < MemLen) =>
    /\ PW(0) > 21 => res = Err("InvalidOpcode", PW(0), prev.cur)
    /\ PW(0) <= 21 => res.kind # "InvalidOpcode"

(* ---------------------------------------------------------------- *)
(* C12: rmem a b stores into destination a (the memory cell a, or the *)
(* register a - 32768) the content of the memory cell addressed by    *)
(* the resolved value of b; it changes no other cell or register, its *)
(* own operand words included, and advances the program counter by 3. *)
(* ---------------------------------------------------------------- *)
C12_RmemWritesDestination ==
  (/\ LastOp(15) /\ HasOperands(2)
   /\ ~IsInvalid(PW(1)) /\ ~IsInvalid(PW(2))
   /\ Resolved(PW(2)) < 32768) =>
     /\ res = Ok
     /\ DestVal(PW(1)) = Rd(prev.mem, Resolved(PW(2)))
     /\ OnlyDestChanged(PW(1))
     /\ cur = prev.cur + 3

(* ---------------------------------------------------------------- *)
(* C13: wmem a b stores the resolved value of b itself (not the       *)
(* content of the cell b addresses) into the memory cell whose        *)
(* address is the resolved value of a (a register reference in a is   *)
(* read to obtain the address, the register is not overwritten), and  *)
(* advances the program counter by 3.                                 *)
(* ---------------------------------------------------------------- *)
C13_WmemStoresValueAtAddress ==
  (/\ LastOp(16) /\ HasOperands(2)
   /\ ~IsInvalid(PW(1)) /\ ~IsInvalid(PW(2))
   /\ Resolved(PW(1)) < 32768) =>
     /\ res = Ok
     /\ Rd(mem, Resolved(PW(1))) = Resolved(PW(2))
     /\ registers = prev.registers
     /\ cur = prev.cur + 3

(* ---------------------------------------------------------------- *)
(* C14: call a pushes the position of the call opcode plus 2 and sets *)
(* the program counter to the resolved value of a; with a register    *)
(* reference in a whose register holds an address below 32768 the     *)
(* call succeeds and jumps to the register's content.                 *)
(* ---------------------------------------------------------------- *)
C14_CallResolvesTarget ==
  (/\ LastOp(17) /\ HasOperands(1)
   /\ ~IsInvalid(PW(1))
   /\ Resolved(PW(1)) < 32768) =>
     /\ res = Ok
     /\ stack = Append(prev.stack, prev.cur + 2)
     /\ cur = Resolved(PW(1))

(* ---------------------------------------------------------------- *)
(* C15: run applies no step bound of its own: it returns only when an *)
(* instruction yields Halt or a fault. For a program that never halts *)
(* and never faults (jmp 0 at address 0) run never returns, and it    *)
(* never reports completion for a program that has not reached halt,  *)
(* ret on an empty stack, or a fault.                                 *)
(* ---------------------------------------------------------------- *)
C15_RunReturnsOnlyOnHaltOrFault ==
  (caller = "run" /\ returned # NotReturned) =>
    /\ res.kind \notin {"Ok", "Panic"}
    /\ returned.kind # "Ok"

(* ---------------------------------------------------------------- *)
(* C16: when a step of run yields a fault or Halt, run returns that   *)
(* same value at once: no further instruction is fetched or executed, *)
(* the machine is not changed afterwards, and the fault is never      *)
(* replaced by success or by another fault.                           *)
(* ---------------------------------------------------------------- *)
C16_Failed == caller = "run" /\ res.kind \notin {"Ok", "Panic"}

C16_RunReturnsFirstFault ==
  /\ [](C16_Failed => returned = res)
  /\ [][C16_Failed => UNCHANGED vars]_vars

\* run returned the InvalidOpcode of the word after the noop of the
\* program [21, 65535], with the counter where that fetch left it
C16_Witness ==
  /\ caller = "run" /\ steps = 2
  /\ prev2 = New(Image(<<21, U16 - 1>>), FreshRegs, <<>>)
  /\ res = Err("InvalidOpcode", U16 - 1, 1) /\ returned = res
  /\ cur = 2

(* ---------------------------------------------------------------- *)
(* C17: every successfully executed instruction that does not         *)
(* redirect control (set, push, pop, eq, gt, add, mult, mod, and, or, *)
(* not, rmem, wmem, out, noop, and a jt or jf that is not taken)      *)
(* advances the program counter by exactly 1 + its operand count:     *)
(* noop 1; push, pop, out 2; set, not, rmem, wmem, jt, jf 3; eq, gt,  *)
(* add, mult, mod, and, or 4.                                         *)
(* ---------------------------------------------------------------- *)
C17_Width(op) ==
  CASE op = 21 -> 1
    [] op \in {2, 3, 19} -> 2
    [] op \in {1, 14, 15, 16, 7, 8} -> 3
    [] op \in {4, 5, 9, 10, 11, 12, 13} -> 4

\* the last instruction was a jt or jf and its condition was false
C17_NotTaken ==
  \/ LastOp(7) /\ Resolved(PW(1)) = 0
  \/ LastOp(8) /\ Resolved(PW(1)) # 0

C17_AdvancesByWidth ==
  \A op \in {1, 2, 3, 4, 5, 7, 8, 9, 10, 11, 12, 13, 14, 15, 16, 19, 21} :
    (/\ LastOp(op) /\ res = Ok
     /\ op \in {7, 8} => C17_NotTaken) =>
       cur = prev.cur + C17_Width(op)

(* ---------------------------------------------------------------- *)
(* C18: in every reachable state in which the machine is about to     *)
(* fetch, the program counter is below 32768; an instruction sequence *)
(* that would carry the counter to 32768 or beyond (a noop at address *)
(* 32767) ends in a reported fault rather than in a fetch or operand  *)
(* read outside the 32768-cell address space. (The only panic left is *)
(* the remainder by zero of mod.)                                     *)
(* ---------------------------------------------------------------- *)
C18_CounterInAddressSpace ==
  /\ (res = Ok /\ steps < Limit) => cur < 32768
  /\ steps > 0 => prev.cur < 32768
  /\ res.kind = "Panic" => LastOp(11)

(* ---------------------------------------------------------------- *)
(* C19: when the jump condition is false (jt with resolved a = 0, jf  *)
(* with resolved a # 0) the instruction advances past both operands   *)
(* (program counter + 3) and does not raise InvalidAddress, even if   *)
(* the resolved value of b is >= 32768; b is validated only when the  *)
(* jump is taken.                                                     *)
(* ---------------------------------------------------------------- *)
\* the last instruction was a jt or jf whose operands resolve and whose
\* condition was false
C19_NotTaken ==
  /\ LastOp(7) \/ LastOp(8)
  /\ HasOperands(2) /\ ~IsInvalid(PW(1)) /\ ~IsInvalid(PW(2))
  /\ C17_NotTaken

C19_NotTakenNeverFaults ==
  C19_NotTaken => res = Ok /\ cur = prev.cur + 3

\* As the code has it: b is validated before the condition is looked
\* at. A jt or jf whose condition is false advances the program
\* counter by 3 when the resolved value of b is below 32768, and fails
\* with InvalidAddress(b, address of operand b) when it is not; either
\* way memory, registers and stack are unchanged.
C19_NotTakenValidatesTarget ==
  C19_NotTaken =>
    /\ IF Resolved(PW(2)) >= 32768
       THEN res = Err("InvalidAddress", Resolved(PW(2)), prev.cur + 2)
       ELSE res = Ok /\ cur = prev.cur + 3
    /\ mem = prev.mem /\ registers = prev.registers /\ stack = prev.stack

\* jt 0 r1 with register 1 holding 65535: not taken, and yet a fault
C19_Witness ==
  /\ LastOp(7) /\ HasOperands(2)
  /\ PW(1) = 0 /\ PW(2) = 32769 /\ prev.registers[1] = 65535
  /\ res = Err("InvalidAddress", 65535, prev.cur + 2)

(* ---------------------------------------------------------------- *)
(* C20: call and ret are inverse on control state: after a successful *)
(* call at position p, the first ret executed when the stack is back  *)
(* at the depth it had right after the call sets the program counter  *)
(* to p + 2 and leaves the stack exactly as it was before the call; a *)
(* call never leaves a return address on the stack unless it also     *)
(* transferred control.                                               *)
(* ---------------------------------------------------------------- *)
\* a ret is the next instruction, and the stack is as deep as right
\* after the latest call whose return address was never taken off
C20_RetDue ==
  /\ run_continues(res) /\ steps < Limit
  /\ cur < MemLen /\ Rd(mem, cur) = 18
  /\ frames # <<>>
  /\ frames[Len(frames)].depth = Len(stack)

\* that ret goes back behind the call and restores the stack
C20_RetUndoesCall ==
  C20_RetDue =>
    /\ res' = Ok
    /\ cur' = frames[Len(frames)].pos + 2
    /\ stack' = frames[Len(frames)].before

C21_Latest(k) == IF k \in DOMAIN written THEN written[k] ELSE Rd(loaded, k)

\* an instruction is fetched from a cell of the memory
C21_Fetch == steps' = steps + 1 /\ cur < MemLen

C21_FetchSeesLatestWrite ==
  /\ [][C21_Fetch => opcode' = C21_Latest(cur)]_vars
  /\ []((steps > 0 /\ mem # prev.mem) => res = Ok)

\* add 4 21 0 put 21 over the jmp in cell 4, and the next step fetched
\* that noop
C21_Witness ==
  /\ steps = 2 /\ prev2 = New(Image(<<9, 4, 21, 0, 6>>), FreshRegs, <<>>)
  /\ Rd(loaded, 4) = 6 /\ written = [k \in {4} |-> 21]
  /\ prev.cur = 4 /\ opcode = 21 /\ res = Ok /\ cur = 5

(* ---------------------------------------------------------------- *)
(* C22: when an instruction fails with InvalidRegister while          *)
(* resolving a source operand (a word >= 32776 read by set, push, eq, *)
(* gt, jmp, jt, jf, add, mult, mod, and, or, not, rmem, wmem or out), *)
(* memory, registers and the stack are exactly as they were before    *)
(* the instruction; only the program counter may differ.              *)
(* ---------------------------------------------------------------- *)
\* the offsets of the source operands of every instruction of the list
C22_SourceOffsets(op) ==
  CASE op \in {2, 6, 19} -> {1}
    [] op \in {7, 8} -> {1, 2}
    [] op \in {1, 14, 15, 16} -> {2}
    [] op \in {4, 5, 9, 10, 11, 12, 13} -> {2, 3}

\* the last instruction read a source operand word that names no
\* register and failed with InvalidRegister for it
C22_SourceFailed(op) ==
  /\ LastOp(op)
  /\ \E k \in C22_SourceOffsets(op) :
       /\ HasOperands(k) /\ IsInvalid(PW(k))
       /\ res = Err("InvalidRegister", PW(k), prev.cur + k)

C22_InvalidRegisterLeavesState ==
  \A op \in {1, 2, 4, 5, 6, 7, 8, 9, 10, 11, 12, 13, 14, 15, 16, 19} :
    C22_SourceFailed(op) =>
      /\ mem = prev.mem
      /\ registers = prev.registers
      /\ stack = prev.stack

\* push 65535 on a stack holding 10 failed and the stack still holds 10
C22_Witness ==
  /\ LastOp(2) /\ PW(1) = 65535
  /\ res = Err("InvalidRegister", 65535, prev.cur + 1)
  /\ prev.stack = <<10>> /\ stack = <<10>> /\ mem = prev.mem

====
